---- MODULE Spec2Model ----
(***************************************************************************)
(* Model of src/app.py: a Streamlit script that, on every run, GETs a user *)
(* list, overwrites the SQLite table `users` with it, reloads the table    *)
(* into a DataFrame, derives name_length / email_domain and computes the   *)
(* dashboard aggregates.                                                   *)
(*                                                                         *)
(* Text is a sequence of one-character strings.  A Python / SQLite value   *)
(* is a record [kind, s, n]: kind "null" (None / NULL), "str" (text s) or  *)
(* "int" (integer n).  Only the columns id, name and email are carried:    *)
(* username, phone and website are TEXT columns bound and stored exactly   *)
(* like name and are read by no aggregate.                                 *)
(***************************************************************************)
EXTENDS Integers, Sequences, FiniteSets, TLC

VARIABLES
    pc,            \* position of the script in the current run
    response,      \* what requests.get produced (line 83)
    users,         \* the Python value bound to `users` (line 87)
    error,         \* what the run reported / raised
    table,         \* committed rows of table users in the database file
    conn,          \* the sqlite3 connection object of the run
    i,             \* number of elements of `users` the for loop has consumed
    df,            \* DataFrame rows as loaded (line 125)
    name_length,   \* column df['name_length'] (line 131)
    email_domain,  \* column df['email_domain'] (line 132)
    metrics,       \* values shown by st.metric (lines 143-158)
    dom_counts,    \* line 197
    avg_length,    \* line 239
    top_names,     \* line 258: index labels of the rows kept, in order
    prev           \* history: batch of the run just before, if it completed

vars == <<pc, response, users, error, table, conn, i, df, name_length,
          email_domain, metrics, dom_counts, avg_length, top_names, prev>>

----------------------------------------------------------------------------
(* Bounds of the model *)

MaxBatch == 2
MaxId == 2
MaxRows == 3
MaxTopRows == 11
MaxTextLen == 3

(* Program constants *)

TopN == 10
HttpOk == 200

----------------------------------------------------------------------------
(* Values *)

Null == [kind |-> "null", s |-> <<>>, n |-> 0]
Str(s) == [kind |-> "str", s |-> s, n |-> 0]
Num(n) == [kind |-> "int", s |-> <<>>, n |-> n]

IsNull(v) == v.kind = "null"

Digit(d) == CASE d = 0 -> "0" [] d = 1 -> "1" [] d = 2 -> "2" [] d = 3 -> "3"
              [] d = 4 -> "4" [] d = 5 -> "5" [] d = 6 -> "6" [] d = 7 -> "7"
              [] d = 8 -> "8" [] OTHER -> "9"

RECURSIVE Decimal(_)
Decimal(n) == IF n < 10 THEN <<Digit(n)>>
              ELSE Decimal(n \div 10) \o <<Digit(n % 10)>>

\* Column affinity TEXT: an integer bound to a TEXT column is stored as its
\* decimal text; NULL and text are stored as they are.
TextAffinity(v) == IF v.kind = "int" THEN Str(Decimal(v.n)) ELSE v

\* Series.astype(str): str(x) of every cell, str(None) being 'None'.
AsTypeStr(v) == CASE v.kind = "null" -> <<"N", "o", "n", "e">>
                  [] v.kind = "int" -> Decimal(v.n)
                  [] OTHER -> v.s

----------------------------------------------------------------------------
(* The HTTP response and the Python value response.json() yields *)

Dict(id, name, email) ==
    [kind |-> "dict", id |-> id, name |-> name, email |-> email]
\* Anything without a .get method: a number, a string, a list, a dict key.
NonDict == [kind |-> "other", id |-> Null, name |-> Null, email |-> Null]

Payload(kind, items) == [kind |-> kind, items |-> items]
NotJson == Payload("notjson", <<>>)
NoUsers == Payload("unset", <<>>)

\* What `for u in users` can iterate: a list yields its elements, a dict its
\* keys, a str its characters; a number, None, True are not iterable.
Iterable(v) == v.kind \in {"array", "object", "string"}

NoError == [kind |-> "none", code |-> 0, cause |-> "none"]
Failure(kind, code, cause) == [kind |-> kind, code |-> code, cause |-> cause]

HttpResponse(status, body) ==
    [transport |-> "ok", status |-> status, body |-> body]
TransportFailure == [transport |-> "fail", status |-> 0, body |-> NotJson]
NoResponse == [transport |-> "none", status |-> 0, body |-> NoUsers]

\* Faulty variant of StatusOk: the status check left out.
StatusNotChecked(code) == TRUE

\* Line 84: response.status_code != 200
StatusOk(code) == code = HttpOk

----------------------------------------------------------------------------
(* SQLite *)

NoConn == [open |-> FALSE, in_txn |-> FALSE, rows |-> {}]
NoTable == [exists |-> FALSE, rows |-> {}]

RECURSIVE SetMax(_)
SetMax(S) == IF S = {} THEN 0
             ELSE LET x == CHOOSE y \in S : TRUE
                      m == SetMax(S \ {x})
                  IN IF x > m THEN x ELSE m

\* id INTEGER PRIMARY KEY is the rowid: NULL takes the largest rowid + 1.
RowId(rows, id) == IF IsNull(id) THEN SetMax({r.id : r \in rows}) + 1 ELSE id.n

StoredRow(rows, u) ==
    [id |-> RowId(rows, u.id),
     name |-> TextAffinity(u.name),
     email |-> TextAffinity(u.email)]

\* Faulty variant of InsertOrReplace: INSERT OR IGNORE, the stored row wins.
InsertOrIgnore(rows, u) ==
    LET new == StoredRow(rows, u)
    IN IF \E r \in rows : r.id = new.id THEN rows ELSE rows \cup {new}

\* Lines 111-116: INSERT OR REPLACE deletes the row holding the same primary
\* key, then inserts.
InsertOrReplace(rows, u) ==
    LET new == StoredRow(rows, u)
    IN {r \in rows : r.id # new.id} \cup {new}

\* SELECT * without ORDER BY scans the rowid table in rowid order.
RECURSIVE ScanOrder(_)
ScanOrder(rows) ==
    IF rows = {} THEN <<>>
    ELSE LET lo == CHOOSE r \in rows : \A q \in rows : r.id <= q.id
         IN <<lo>> \o ScanOrder(rows \ {lo})

----------------------------------------------------------------------------
(* Enrichment: lines 131-132 *)

\* str.lower() on the characters the model uses.
Lower(c) == CASE c = "A" -> "a" [] c = "B" -> "b" [] c = "X" -> "x"
              [] c = "Y" -> "y" [] OTHER -> c
LowerText(t) == [k \in 1..Len(t) |-> Lower(t[k])]

Contains(t, c) == \E k \in 1..Len(t) : t[k] = c

\* str.split(sep): the pieces between the separators, empty pieces kept.
RECURSIVE Split(_, _)
Split(t, sep) ==
    IF t = <<>> THEN << <<>> >>
    ELSE LET rest == Split(Tail(t), sep)
         IN IF Head(t) = sep THEN << <<>> >> \o rest
            ELSE << <<Head(t)>> \o Head(rest) >> \o Tail(rest)

\* Line 131: df['name'].astype(str).apply(len)
NameLength(name) == Len(AsTypeStr(name))

\* Faulty variant of EmailDomain: split('@')[1], the piece after the first '@'.
EmailDomainAfterFirstAt(email) ==
    LET x == AsTypeStr(email)
        parts == Split(x, "@")
    IN IF Contains(x, "@") THEN Str(LowerText(parts[2])) ELSE Null

\* Line 132: x.split('@')[-1].lower() if '@' in str(x) else None
EmailDomain(email) ==
    LET x == AsTypeStr(email)
        parts == Split(x, "@")
    IN IF Contains(x, "@") THEN Str(LowerText(parts[Len(parts)])) ELSE Null

----------------------------------------------------------------------------
(* Aggregates.  A number pandas returns is a fraction [num, den]; NaN, which
   mean() and max() return for an empty column, is the fraction 0/0. *)

NaN == [num |-> 0, den |-> 0]
Frac(a, b) == [num |-> a, den |-> b]

RECURSIVE SumOver(_, _)
SumOver(col, K) ==
    IF K = {} THEN 0
    ELSE LET k == CHOOSE x \in K : TRUE
         IN col[k] + SumOver(col, K \ {k})

\* Series.mean() over the rows K of a column
MeanOver(col, K) ==
    IF K = {} THEN NaN ELSE Frac(SumOver(col, K), Cardinality(K))

\* Faulty variant of MaxOf: 0 for an empty column.
MaxOfOrZero(col) ==
    IF Len(col) = 0 THEN Frac(0, 1)
    ELSE Frac(CHOOSE m \in {col[k] : k \in 1..Len(col)} :
                 \A k \in 1..Len(col) : col[k] <= m, 1)

\* Series.max()
MaxOf(col) ==
    IF Len(col) = 0 THEN NaN
    ELSE Frac(CHOOSE m \in {col[k] : k \in 1..Len(col)} :
                 \A k \in 1..Len(col) : col[k] <= m, 1)

\* The values pandas groups or counts by: dropna=True is the default of
\* nunique(), value_counts() and groupby(), so None is left out.
GroupKeys(col) == {col[k] : k \in 1..Len(col)} \ {Null}

\* Lines 150-151: df['email_domain'].nunique()
NUnique(col) == Cardinality(GroupKeys(col))

\* Line 197: df['email_domain'].value_counts()
ValueCounts(col) ==
    [d \in GroupKeys(col) |-> Cardinality({k \in 1..Len(col) : col[k] = d})]

\* Line 239: df.groupby('email_domain')['name_length'].mean()
GroupMean(keys, col) ==
    [d \in GroupKeys(keys) |-> MeanOver(col, {k \in 1..Len(keys) : keys[k] = d})]

\* sort_values('name_length', ascending=False) with the default
\* kind='quicksort', which is not a stable sort: every arrangement of the
\* index labels K in non-increasing order of the column is a possible result.
RECURSIVE SortOrders(_, _)
SortOrders(col, K) ==
    IF K = {} THEN {<<>>}
    ELSE LET top == {k \in K : \A j \in K : col[j] <= col[k]}
         IN UNION {{<<k>> \o rest : rest \in SortOrders(col, K \ {k})} : k \in top}

\* Faulty variant of HeadRows: one row too many.
HeadRowsOneMore(order, n) ==
    SubSeq(order, 1, IF Len(order) < n + 1 THEN Len(order) ELSE n + 1)

\* DataFrame.head(n)
HeadRows(order, n) == SubSeq(order, 1, IF Len(order) < n THEN Len(order) ELSE n)

NoMetrics == [total |-> 0, nunique |-> 0, mean |-> NaN, max |-> NaN]

----------------------------------------------------------------------------
(* The script, statement by statement *)

\* Lines 81-90: one GET; st.stop() ends the run (it raises a BaseException,
\* which `except Exception` does not catch); response.json() raising on a body
\* that is not JSON is caught and reported like a connection error.
Fetch(Responses) ==
    /\ pc = "start"
    /\ \E r \in Responses :
        /\ response' = r
        /\ IF r.transport = "fail"
           THEN /\ error' = Failure("connection", 0, "RequestException")
                /\ pc' = "stopped"
                /\ users' = users
           ELSE IF ~StatusOk(r.status)
           THEN /\ error' = Failure("bad-status", r.status, "none")
                /\ pc' = "stopped"
                /\ users' = users
           ELSE IF r.body.kind = "notjson"
           THEN /\ error' = Failure("connection", 0, "JSONDecodeError")
                /\ pc' = "stopped"
                /\ users' = users
           ELSE /\ error' = error
                /\ pc' = "fetched"
                /\ users' = r.body
        /\ prev' = IF r.transport = "ok" /\ r.status = HttpOk /\ r.body = prev
                   THEN prev ELSE NoUsers
    /\ UNCHANGED <<table, conn, i, df, name_length, email_domain, metrics,
                   dom_counts, avg_length, top_names>>

\* Lines 95-96: sqlite3.connect
Connect ==
    /\ pc = "fetched"
    /\ conn' = [open |-> TRUE, in_txn |-> FALSE, rows |-> table.rows]
    /\ pc' = "connected"
    /\ UNCHANGED <<response, users, error, table, i, df, name_length,
                   email_domain, metrics, dom_counts, avg_length, top_names, prev>>

\* Line 98: DROP TABLE IF EXISTS.  No transaction is open, so the statement
\* commits by itself.
DropTable ==
    /\ pc = "connected"
    /\ table' = NoTable
    /\ conn' = [conn EXCEPT !.rows = {}]
    /\ pc' = "dropped"
    /\ UNCHANGED <<response, users, error, i, df, name_length, email_domain,
                   metrics, dom_counts, avg_length, top_names, prev>>

\* Lines 99-108: CREATE TABLE IF NOT EXISTS, committed by itself as well
CreateTable ==
    /\ pc = "dropped"
    /\ table' = [exists |-> TRUE, rows |-> {}]
    /\ pc' = "created"
    /\ UNCHANGED <<response, users, error, conn, i, df, name_length,
                   email_domain, metrics, dom_counts, avg_length, top_names, prev>>

\* Line 110 on a value that cannot be iterated: TypeError
IterateFails ==
    /\ pc = "created"
    /\ ~Iterable(users)
    /\ error' = Failure("exception", 0, "TypeError")
    /\ pc' = "crashed"
    /\ UNCHANGED <<response, users, table, conn, i, df, name_length,
                   email_domain, metrics, dom_counts, avg_length, top_names, prev>>

\* Lines 110-116, one element: u.get on an element that is no dict raises
\* AttributeError; otherwise the row is written inside the transaction the
\* first INSERT opens.
InsertNext ==
    /\ pc = "created"
    /\ Iterable(users)
    /\ i < Len(users.items)
    /\ LET u == users.items[i + 1]
       IN IF u.kind = "dict"
          THEN /\ conn' = [conn EXCEPT !.in_txn = TRUE,
                                       !.rows = InsertOrReplace(conn.rows, u)]
               /\ i' = i + 1
               /\ UNCHANGED <<pc, error>>
          ELSE /\ error' = Failure("exception", 0, "AttributeError")
               /\ pc' = "crashed"
               /\ UNCHANGED <<conn, i>>
    /\ UNCHANGED <<response, users, table, df, name_length, email_domain,
                   metrics, dom_counts, avg_length, top_names, prev>>

\* Faulty variant of Commit: conn.commit() left out, close() rolls the inserts back.
CommitLeftOut ==
    /\ pc = "created"
    /\ Iterable(users)
    /\ i = Len(users.items)
    /\ conn' = [conn EXCEPT !.in_txn = FALSE, !.rows = table.rows]
    /\ pc' = "committed"
    /\ UNCHANGED <<response, users, error, table, i, df, name_length, email_domain,
                   metrics, dom_counts, avg_length, top_names, prev>>

\* Line 118: conn.commit() once the loop is exhausted
Commit ==
    /\ pc = "created"
    /\ Iterable(users)
    /\ i = Len(users.items)
    /\ table' = [table EXCEPT !.rows = conn.rows]
    /\ conn' = [conn EXCEPT !.in_txn = FALSE]
    /\ pc' = "committed"
    /\ UNCHANGED <<response, users, error, i, df, name_length, email_domain,
                   metrics, dom_counts, avg_length, top_names, prev>>

\* Line 119: conn.close()
Close ==
    /\ pc = "committed"
    /\ conn' = NoConn
    /\ pc' = "closed"
    /\ UNCHANGED <<response, users, error, table, i, df, name_length,
                   email_domain, metrics, dom_counts, avg_length, top_names, prev>>

\* Line 124
Connect2 ==
    /\ pc = "closed"
    /\ conn' = [open |-> TRUE, in_txn |-> FALSE, rows |-> table.rows]
    /\ pc' = "connected2"
    /\ UNCHANGED <<response, users, error, table, i, df, name_length,
                   email_domain, metrics, dom_counts, avg_length, top_names, prev>>

\* Line 125: pd.read_sql_query('SELECT * FROM users', conn)
ReadSql ==
    /\ pc = "connected2"
    /\ df' = ScanOrder(conn.rows)
    /\ pc' = "selected"
    /\ UNCHANGED <<response, users, error, table, conn, i, name_length,
                   email_domain, metrics, dom_counts, avg_length, top_names, prev>>

\* Line 126
Close2 ==
    /\ pc = "selected"
    /\ conn' = NoConn
    /\ pc' = "loaded"
    /\ UNCHANGED <<response, users, error, table, i, df, name_length,
                   email_domain, metrics, dom_counts, avg_length, top_names, prev>>

\* The statement the script is about to run on the database at pc = "created":
\* the INSERT of the next element when that element is a dict, conn.commit()
\* once the loop is exhausted and a transaction is open (commit() runs no
\* statement otherwise), none when the loop itself raises.
InsertPending ==
    /\ Iterable(users)
    /\ i < Len(users.items)
    /\ users.items[i + 1].kind = "dict"
CommitPending ==
    /\ Iterable(users)
    /\ i = Len(users.items)
    /\ conn.in_txn

\* The connection after a statement on it failed.  Outside the loop the
\* statement ran by itself and the connection is as it was.  sqlite3 opens the
\* implicit transaction before it runs an INSERT, so after a failed INSERT or
\* commit the transaction is either still open with the rows written so far
\* (a lock held by another connection) or rolled back as a whole by SQLite
\* (a disk fault: SQLITE_IOERR, SQLITE_FULL), the connection then seeing the
\* committed table again.
FaultOutcomes ==
    IF pc = "created"
    THEN {[conn EXCEPT !.in_txn = TRUE],
          [conn EXCEPT !.in_txn = FALSE, !.rows = table.rows]}
    ELSE {conn}

\* A statement on the connection fails in the engine (disk, lock): the
\* sqlite3 exception is not caught, the script ends where it is, nothing
\* uncommitted reaches the file and conn.close() is never reached.
EngineFault ==
    /\ \/ pc \in {"fetched", "connected", "dropped", "closed", "connected2"}
       \/ pc = "created" /\ (InsertPending \/ CommitPending)
    /\ conn' \in FaultOutcomes
    /\ error' = Failure("exception", 0, "sqlite3.Error")
    /\ pc' = "crashed"
    /\ UNCHANGED <<response, users, table, i, df, name_length,
                   email_domain, metrics, dom_counts, avg_length, top_names, prev>>

\* Lines 131-132
Enrich ==
    /\ pc = "loaded"
    /\ name_length' = [k \in 1..Len(df) |-> NameLength(df[k].name)]
    /\ email_domain' = [k \in 1..Len(df) |-> EmailDomain(df[k].email)]
    /\ pc' = "enriched"
    /\ UNCHANGED <<response, users, error, table, conn, i, df, metrics,
                   dom_counts, avg_length, top_names, prev>>

\* Lines 140-159
Metrics ==
    /\ pc = "enriched"
    /\ metrics' = [total |-> Len(df),
                   nunique |-> NUnique(email_domain),
                   mean |-> MeanOver(name_length, 1..Len(name_length)),
                   max |-> MaxOf(name_length)]
    /\ pc' = "metrics"
    /\ UNCHANGED <<response, users, error, table, conn, i, df, name_length,
                   email_domain, dom_counts, avg_length, top_names, prev>>

\* Lines 197-198
DomCounts ==
    /\ pc = "metrics"
    /\ dom_counts' = ValueCounts(email_domain)
    /\ pc' = "counted"
    /\ UNCHANGED <<response, users, error, table, conn, i, df, name_length,
                   email_domain, metrics, avg_length, top_names, prev>>

\* Line 239
AvgLength ==
    /\ pc = "counted"
    /\ avg_length' = GroupMean(email_domain, name_length)
    /\ pc' = "averaged"
    /\ UNCHANGED <<response, users, error, table, conn, i, df, name_length,
                   email_domain, metrics, dom_counts, top_names, prev>>

\* Line 258
TopNames ==
    /\ pc = "averaged"
    /\ \E order \in SortOrders(name_length, 1..Len(name_length)) :
          top_names' = HeadRows(order, TopN)
    /\ pc' = "done"
    /\ UNCHANGED <<response, users, error, table, conn, i, df, name_length,
                   email_domain, metrics, dom_counts, avg_length, prev>>

\* The page is run again: a new execution of the script against the same
\* database file.  The objects of the run before are gone (a connection left
\* open is closed when it is collected, its transaction rolled back).
Rerun ==
    /\ pc \in {"done", "stopped", "crashed"}
    /\ pc' = "start"
    /\ prev' = IF pc = "done" THEN users ELSE NoUsers
    /\ response' = NoResponse
    /\ users' = NoUsers
    /\ error' = NoError
    /\ conn' = NoConn
    /\ i' = 0
    /\ df' = <<>>
    /\ name_length' = <<>>
    /\ email_domain' = <<>>
    /\ metrics' = NoMetrics
    /\ dom_counts' = <<>>
    /\ avg_length' = <<>>
    /\ top_names' = <<>>
    /\ UNCHANGED table

----------------------------------------------------------------------------
(* What the endpoint may answer *)

SeqsOf(S, n) == [1..n -> S]
SeqsUpTo(S, n) == UNION {SeqsOf(S, k) : k \in 0..n}
Repeat(c, n) == [k \in 1..n |-> c]

BadStatuses == {204, 404, 500}

Ids == {Null} \cup {Num(k) : k \in 1..MaxId}
PipelineNames == {Null, Str(<<"a">>), Num(7)}
PipelineDicts ==
    {Dict(id, name, Str(<<"a", "@", "B">>)) : id \in Ids, name \in PipelineNames}

\* Lists of at most MaxBatch elements; the loop stops at the first element
\* that is no dict, so such an element is the last one.
PipelineArrays ==
    SeqsUpTo(PipelineDicts, MaxBatch)
        \cup {a \o <<NonDict>> : a \in SeqsUpTo(PipelineDicts, MaxBatch - 1)}

PipelineBodies ==
    {Payload("array", a) : a \in PipelineArrays}
        \cup {NotJson, Payload("number", <<>>),
              Payload("object", <<>>), Payload("object", <<NonDict>>),
              Payload("string", <<>>), Payload("string", <<NonDict>>)}

PipelineResponses ==
    {TransportFailure}
        \cup {HttpResponse(c, NotJson) : c \in BadStatuses}
        \cup {HttpResponse(HttpOk, b) : b \in PipelineBodies}

----------------------------------------------------------------------------
(* Specifications *)

\* A fresh database file, before the first run.
Init ==
    /\ pc = "start"
    /\ response = NoResponse
    /\ users = NoUsers
    /\ error = NoError
    /\ table = NoTable
    /\ conn = NoConn
    /\ i = 0
    /\ df = <<>>
    /\ name_length = <<>>
    /\ email_domain = <<>>
    /\ metrics = NoMetrics
    /\ dom_counts = <<>>
    /\ avg_length = <<>>
    /\ top_names = <<>>
    /\ prev = NoUsers

Next ==
    \/ Fetch(PipelineResponses)
    \/ Connect
    \/ DropTable
    \/ CreateTable
    \/ IterateFails
    \/ InsertNext
    \/ Commit
    \/ Close
    \/ Connect2
    \/ ReadSql
    \/ Close2
    \/ EngineFault
    \/ Enrich
    \/ Metrics
    \/ DomCounts
    \/ AvgLength
    \/ TopNames
    \/ Rerun

Spec == Init /\ [][Next]_vars

----------------------------------------------------------------------------
(* The analysis part of the script (lines 131-258) on a loaded DataFrame.
   The run has fetched a list of dicts with distinct integer ids, stored it
   and loaded it back: df holds the rows in rowid order. *)

Row(id, name, email) == [id |-> id, name |-> name, email |-> email]

InitLoaded(Frames) ==
    /\ pc = "loaded"
    /\ df \in Frames
    /\ users = Payload("array",
                 [k \in 1..Len(df) |-> Dict(Num(df[k].id), df[k].name, df[k].email)])
    /\ response = HttpResponse(HttpOk, users)
    /\ error = NoError
    /\ table = [exists |-> TRUE, rows |-> {df[k] : k \in 1..Len(df)}]
    /\ conn = NoConn
    /\ i = Len(df)
    /\ name_length = <<>>
    /\ email_domain = <<>>
    /\ metrics = NoMetrics
    /\ dom_counts = <<>>
    /\ avg_length = <<>>
    /\ top_names = <<>>
    /\ prev = NoUsers

NextAnalysis ==
    \/ Enrich
    \/ Metrics
    \/ DomCounts
    \/ AvgLength
    \/ TopNames

\* One row, every name and email of at most MaxTextLen characters.
EnrichNames == {Null} \cup {Str(t) : t \in SeqsUpTo({"a", "B"}, MaxTextLen)}
EnrichEmails == {Null} \cup {Str(t) : t \in SeqsUpTo({"a", "B", "@"}, MaxTextLen)}
EnrichFrames == {<<Row(1, n, e)>> : n \in EnrichNames, e \in EnrichEmails}

SpecEnrich == InitLoaded(EnrichFrames) /\ [][NextAnalysis]_vars

\* At most MaxRows rows over a few names and emails: two domains, one of them
\* in two spellings, an email without '@' and a missing one.
AggNames == {Str(<<"a">>), Str(<<"a", "B", "a">>)}
AggEmails == {Null, Str(<<"a">>), Str(<<"a", "@", "x">>), Str(<<"B", "@", "X">>),
              Str(<<"a", "@", "y">>)}
AggFrames ==
    UNION {{[k \in 1..n |-> Row(k, ne[k][1], ne[k][2])] :
                ne \in [1..n -> AggNames \X AggEmails]} : n \in 0..MaxRows}

SpecAgg == InitLoaded(AggFrames) /\ [][NextAnalysis]_vars

\* Up to MaxTopRows rows; row k has a name of k or k + 1 characters, so rows
\* next to each other may tie.
TopFrames ==
    UNION {{[k \in 1..n |-> Row(k, Str(Repeat("a", k + long[k])), Str(<<"a", "@", "x">>))] :
                long \in [1..n -> {0, 1}]} : n \in 0..MaxTopRows}

SpecTop == InitLoaded(TopFrames) /\ [][NextAnalysis]_vars

----------------------------------------------------------------------------
(* Properties *)

AfterEnrich == {"enriched", "metrics", "counted", "averaged", "done"}
AfterLoad == {"loaded"} \cup AfterEnrich
AfterCommit == {"committed", "closed", "connected2", "selected"} \cup AfterLoad

SuccessStatus(code) == code \in 200..299
BadStatusResponse(r) == r.transport = "ok" /\ ~SuccessStatus(r.status)

\* C1: a run whose GET returns a non-success status halts with a bad-status
\* error carrying the status code, executes no later stage (the only step
\* after it is the next run) and leaves the users table as it was.
C1_BadStatusHaltsTableUnchanged ==
    [][/\ (pc = "start" /\ BadStatusResponse(response')) =>
            /\ pc' = "stopped"
            /\ error' = Failure("bad-status", response'.status, "none")
            /\ table' = table
            /\ conn' = NoConn
            /\ users' = NoUsers
            /\ df' = <<>>
            /\ metrics' = NoMetrics
       /\ (pc = "stopped" /\ BadStatusResponse(response)) =>
            /\ pc' = "start"
            /\ table' = table]_vars

C1_Witness ==
    /\ pc = "stopped"
    /\ error = Failure("bad-status", 500, "none")
    /\ table.rows # {}

Malformed(body) ==
    \/ body.kind # "array"
    \/ \E k \in 1..Len(body.items) : body.items[k].kind # "dict"

\* C2: a response with success status whose body is not a JSON array of
\* objects halts the run at the fetch with a reported error, before the table
\* is dropped, recreated or written.
C2_MalformedPayloadHaltsAtFetch ==
    (/\ response.transport = "ok"
     /\ SuccessStatus(response.status)
     /\ Malformed(response.body)
     /\ pc # "start")
        => (pc = "stopped" /\ error.kind # "none")

FetchedRecord(u) == Row(u.id, u.name, u.email)
LoadedRecord(r) == Row(Num(r.id), r.name, r.email)
NoDuplicateIds(rows) ==
    \A j, k \in 1..Len(rows) : j # k => rows[j].id # rows[k].id
\* The run before completed with the batch this run fetched.
ReplacedTwice == users.kind = "array" /\ prev = users
SameAsBatch ==
    {LoadedRecord(df[k]) : k \in 1..Len(df)}
        = {FetchedRecord(users.items[k]) : k \in 1..Len(users.items)}
\* Every record carries an integer id, no two the same, and its name and email
\* are text or missing.
DistinctIdsTextFields(items) ==
    /\ \A k \in 1..Len(items) :
          /\ items[k].kind = "dict"
          /\ items[k].id.kind = "int"
          /\ items[k].name.kind # "int"
          /\ items[k].email.kind # "int"
    /\ NoDuplicateIds(items)

\* C3 as stated: for any batch, replaceAll twice with it and then loadAll
\* yields the batch as a set, without duplicate ids.
C3_IdempotentForAnyBatch ==
    (ReplacedTwice /\ pc \in AfterLoad) => (SameAsBatch /\ NoDuplicateIds(df))

\* C3 amended: replaceAll twice with the same batch and then loadAll yields
\* rows without duplicate ids, and yields the batch as a set when its records
\* carry distinct integer ids and text (or missing) fields.
C3_IdempotentForDistinctIds ==
    (ReplacedTwice /\ pc \in AfterLoad) =>
        /\ NoDuplicateIds(df)
        /\ DistinctIdsTextFields(users.items) => SameAsBatch

C3_Witness ==
    /\ ReplacedTwice
    /\ pc = "loaded"
    /\ Len(users.items) = 2
    /\ DistinctIdsTextFields(users.items)
    /\ \E k \in 1..2 : IsNull(users.items[k].name)

\* C4: name_length is the length of the name as text, and 0 when the name is
\* missing.
C4_NameLengthZeroWhenMissing ==
    pc \in AfterEnrich =>
        \A k \in 1..Len(df) :
            name_length[k] = IF IsNull(df[k].name) THEN 0 ELSE Len(df[k].name.s)

LastAt(t) ==
    CHOOSE k \in 1..Len(t) : t[k] = "@" /\ \A j \in (k + 1)..Len(t) : t[j] # "@"

\* C5: with an '@' in the email, email_domain is the lowercased text after the
\* last '@' (possibly empty); without one, or without an email, it is absent.
C5_EmailDomainAfterLastAt ==
    pc \in AfterEnrich =>
        \A k \in 1..Len(df) :
            LET e == df[k].email
            IN IF e.kind = "str" /\ Contains(e.s, "@")
               THEN email_domain[k]
                      = Str(LowerText(SubSeq(e.s, LastAt(e.s) + 1, Len(e.s))))
               ELSE email_domain[k] = Null

C5_Witness ==
    /\ pc = "enriched"
    /\ df[1].email = Str(<<"@", "@", "B">>)
    /\ email_domain[1] = Str(<<"b">>)

RECURSIVE SumValues(_, _)
SumValues(f, D) ==
    IF D = {} THEN 0
    ELSE LET d == CHOOSE x \in D : TRUE
         IN f[d] + SumValues(f, D \ {d})

\* C6: for a non-empty frame the per-domain counts sum to the number of rows,
\* every count is at least 1, and the rows without a domain are a bucket of
\* their own in the counts and in the per-domain means.
C6_DomainCountsSumToTotal ==
    (pc \in {"counted", "averaged", "done"} /\ Len(df) > 0) =>
        /\ SumValues(dom_counts, DOMAIN dom_counts) = Len(df)
        /\ \A d \in DOMAIN dom_counts : dom_counts[d] >= 1
        /\ DOMAIN dom_counts = {email_domain[k] : k \in 1..Len(df)}
        /\ pc \in {"averaged", "done"} =>
              DOMAIN avg_length = {email_domain[k] : k \in 1..Len(df)}

Kept == {top_names[k] : k \in 1..Len(top_names)}
TopNSortedAndCut ==
    /\ Len(top_names) = (IF Len(df) < TopN THEN Len(df) ELSE TopN)
    /\ Kept \subseteq 1..Len(df)
    /\ Cardinality(Kept) = Len(top_names)
    /\ \A k \in 1..(Len(top_names) - 1) :
          name_length[top_names[k]] >= name_length[top_names[k + 1]]
    /\ \A x \in (1..Len(df)) \ Kept : \A k \in Kept :
          name_length[k] >= name_length[x]
TiesInLoadedOrder ==
    /\ \A j, k \in 1..Len(top_names) :
          (j < k /\ name_length[top_names[j]] = name_length[top_names[k]])
              => top_names[j] < top_names[k]
    /\ \A x \in (1..Len(df)) \ Kept : \A k \in Kept :
          name_length[k] = name_length[x] => k < x

\* C7 as stated: the top 10 has min(10, total) rows, is in non-increasing
\* order of name_length, keeps no row shorter than one it leaves out, and
\* orders equal lengths as in the loaded frame.
C7_TopNStable == pc = "done" => (TopNSortedAndCut /\ TiesInLoadedOrder)

\* C7 amended: as stated, without the order among rows of equal name_length.
C7_TopNSorted == pc = "done" => TopNSortedAndCut

C7_Witness ==
    /\ pc = "done"
    /\ Len(df) > TopN
    /\ Len(top_names) = TopN
    /\ \E x \in (1..Len(df)) \ Kept : \E k \in Kept :
          name_length[k] = name_length[x]

\* C8: the run has never halted, nor moved past a storage stage, with a
\* connection it opened still open.
C8_ConnectionsReleased ==
    pc \in ({"stopped", "crashed", "closed"} \cup AfterLoad) => ~conn.open

EmptyBatch == Payload("array", <<>>)

\* C9: with an empty batch nothing in the script itself fails after the fetch
\* (only the storage engine may), the frame is empty, the counts are 0, the
\* per-domain counts and means are empty, and mean and max are NaN.
C9_EmptyBatchNoData ==
    users = EmptyBatch =>
        /\ pc # "stopped"
        /\ pc = "crashed" => error.cause = "sqlite3.Error"
        /\ pc \in AfterLoad => df = <<>>
        /\ pc \in {"metrics", "counted", "averaged", "done"} =>
              metrics = [total |-> 0, nunique |-> 0, mean |-> NaN, max |-> NaN]
        /\ pc = "done" =>
              /\ DOMAIN dom_counts = {}
              /\ DOMAIN avg_length = {}
              /\ top_names = <<>>

C9_Witness ==
    /\ users = EmptyBatch
    /\ pc = "done"
    /\ metrics.total = 0
    /\ metrics.max = NaN

BatchIds(items) == {items[k].id : k \in 1..Len(items)}
LastCarrying(items, id) ==
    items[CHOOSE k \in 1..Len(items) :
             items[k].id = id /\ \A j \in (k + 1)..Len(items) : items[j].id # id]
Holds(r, u) ==
    /\ r.name = TextAffinity(u.name)
    /\ r.email = TextAffinity(u.email)
    /\ u.id.kind = "int" => r.id = u.id.n
UniqueIds(rows) == \A r, q \in rows : r.id = q.id => r = q

\* C10 as stated: the table never holds two rows with one id, and after a
\* successful run it holds one row per distinct id of the batch, the last
\* record carrying that id, and nothing else.
C10_OneRowPerBatchId ==
    /\ UniqueIds(table.rows)
    /\ pc \in AfterCommit =>
          /\ Cardinality(table.rows) = Cardinality(BatchIds(users.items))
          /\ \A id \in BatchIds(users.items) :
                \E r \in table.rows : Holds(r, LastCarrying(users.items, id))

AllCarryId(items) == \A k \in 1..Len(items) : items[k].id.kind = "int"

\* C10 amended: the table never holds two rows with one id, and after a
\* successful run whose records all carry an id it holds one row per distinct
\* id of the batch, the last record carrying that id, and nothing else.
C10_OneRowPerPresentId ==
    /\ UniqueIds(table.rows)
    /\ (pc \in AfterCommit /\ AllCarryId(users.items)) =>
          /\ Cardinality(table.rows) = Cardinality(BatchIds(users.items))
          /\ \A id \in BatchIds(users.items) :
                \E r \in table.rows : Holds(r, LastCarrying(users.items, id))

C10_Witness ==
    /\ pc = "committed"
    /\ Len(users.items) = 2
    /\ users.items[1].id = Num(1)
    /\ users.items[2].id = Num(1)
    /\ users.items[1].name # users.items[2].name
    /\ Cardinality(table.rows) = 1

====
